---- MODULE Spec2Model ----
(***************************************************************************)
(* A model of cv_generator.py: the markdown parser, the run-preserving     *)
(* placeholder replacement and the template-filling pipeline               *)
(* (fill_docx_template followed by remove_trailing_empty_paragraphs).      *)
(*                                                                         *)
(* Text is a sequence of symbols.  A symbol is a one-symbol string: the    *)
(* punctuation the code looks for ("{", "}", "#", "/", "*", newline), or a *)
(* word, an identifier or a piece of ordinary text taken as one lexical    *)
(* unit ("KEY_ACHIEVEMENTS", "Go").  Python's None, True and False are the *)
(* strings "None", "True" and "False".                                     *)
(***************************************************************************)
EXTENDS Integers, Sequences, FiniteSets, TLC

VARIABLES pc, text, parts, para, para0, placeholder, replacement_value,
          doc, doc0, data, i, paragraphs_to_process

vars == <<pc, text, parts, para, para0, placeholder, replacement_value,
          doc, doc0, data, i, paragraphs_to_process>>

----------------------------------------------------------------------------
(* Bounds *)

MaxTextLen == 5

MaxRuns == 3

MaxItems == 3

MaxRecords == 2

\* the block pass is followed while the body has at most this many elements
MaxBodyLen == 12

----------------------------------------------------------------------------
(* Text helpers: Python's str operations on sequences of symbols *)

NL == "\n"

SetMin(S) == CHOOSE m \in S : \A n \in S : m <= n

\* the least element of S, 0 when S is empty
MinOr0(S) == IF S = {} THEN 0 ELSE SetMin(S)

\* s occurs in t at position p (1-based)
IsAt(t, p, s) ==
    /\ p >= 1
    /\ p + Len(s) - 1 <= Len(t)
    /\ SubSeq(t, p, p + Len(s) - 1) = s

\* str.find, 1-based, 0 when s does not occur in t
Find(t, s) == MinOr0({p \in 1..(Len(t) + 1) : IsAt(t, p, s)})

\* Python's `s in t`
Contains(t, s) == Find(t, s) # 0

\* the text after position p
After(t, p) == SubSeq(t, p + 1, Len(t))

RECURSIVE RemoveAll(_, _)
\* t without the occurrence of s at p and every later one; t when p = 0
RemoveFrom(t, s, p) ==
    IF p = 0 \/ s = <<>> THEN t
    ELSE SubSeq(t, 1, p - 1) \o RemoveAll(After(t, p + Len(s) - 1), s)

\* "".join(t.split(s)): every non-overlapping occurrence of s, left to right, removed
RemoveAll(t, s) == RemoveFrom(t, s, Find(t, s))

----------------------------------------------------------------------------
(* parse_markdown_formatting *)

Stars(d) == IF d = 2 THEN <<"*", "*">> ELSE <<"*">>

\* `.` of the pattern: any symbol but a newline
NoNewline(t) == \A k \in 1..Len(t) : t[k] # NL

\* Closings with the back-reference dropped: any single star closes the span
Closings_AnyMarker(t, s, d) ==
    {e \in (s + d + 1)..Len(t) :
        /\ NoNewline(SubSeq(t, s + d, e - 1))
        /\ IsAt(t, e, Stars(1))}

\* positions where the back-reference \1 can close a span opened at s by Stars(d):
\* group 2, (.+?), holds at least one symbol and no newline
Closings(t, s, d) ==
    {e \in (s + d + 1)..Len(t) :
        /\ NoNewline(SubSeq(t, s + d, e - 1))
        /\ IsAt(t, e, Stars(d))}

\* the pattern (\*{1,2})(.+?)\1 tried at position s: \*{1,2} is greedy, so two
\* stars are tried first and one star only when no match opens with two;
\* (.+?) is lazy, so the nearest closing is taken.  d = 0: no match at s.
\* close is the nearest closing of a span opened at s by Stars(d), 0 without one
FirstClosing(t, s, d) ==
    IF IsAt(t, s, Stars(d)) THEN MinOr0(Closings(t, s, d)) ELSE 0

\* the match that opens with two stars if there is one (close2 # 0), else the
\* one that opens with one star, else none (d = 0)
Longest(close2, close1) ==
    IF close2 # 0 THEN [d |-> 2, close |-> close2]
    ELSE IF close1 # 0 THEN [d |-> 1, close |-> close1]
    ELSE [d |-> 0, close |-> 0]

MatchAt(t, s) == Longest(FirstClosing(t, s, 2), FirstClosing(t, s, 1))

\* re.finditer's next match at or after position s; 0 when there is none
NextMatch(t, s) == MinOr0({p \in s..Len(t) : MatchAt(t, p).d # 0})

Part(t, b) == [text |-> t, bold |-> b]

RECURSIVE ScanMatches(_, _)
\* lines 138-149: one turn of the loop, for the match m found at s
MatchParts(t, last, s, m) ==
    (IF s - 1 > last THEN <<Part(SubSeq(t, last + 1, s - 1), FALSE)>> ELSE <<>>)
    \o <<Part(SubSeq(t, s + m.d, m.close - 1), TRUE)>>
    \o ScanMatches(t, m.close + m.d - 1)

\* lines 138-155 with the next match at s; s = 0: the loop is over and the
\* remaining text follows
ScanFrom(t, last, s) ==
    IF s = 0
    THEN IF last < Len(t) THEN <<Part(After(t, last), FALSE)>> ELSE <<>>
    ELSE MatchParts(t, last, s, MatchAt(t, s))

\* the loop of parse_markdown_formatting with last_end = last
ScanMatches(t, last) == ScanFrom(t, last, NextMatch(t, last + 1))

\* line 157: return segments if segments else [(text, False)]
OrWhole(segments, t) == IF segments # <<>> THEN segments ELSE <<Part(t, FALSE)>>

parse_markdown_formatting(t) == OrWhole(ScanMatches(t, 0), t)

----------------------------------------------------------------------------
(* The parser on its own: every text over a small alphabet *)

ParseAlphabet == {"*", "a", NL}

RECURSIVE TextsOver(_, _)
TextsOver(A, n) ==
    IF n = 0 THEN {<<>>}
    ELSE LET shorter == TextsOver(A, n - 1)
         IN  shorter \cup {Append(t, c) : t \in {u \in shorter : Len(u) = n - 1}, c \in A}

NoPara == [k |-> "p", runs |-> <<>>, pPr |-> "None"]

InitParse ==
    /\ pc = "parse"
    /\ text \in TextsOver(ParseAlphabet, MaxTextLen)
    /\ parts = <<>>
    /\ para = NoPara
    /\ para0 = NoPara
    /\ placeholder = <<>>
    /\ replacement_value = <<>>
    /\ doc = <<>>
    /\ doc0 = <<>>
    /\ data = <<>>
    /\ i = 0
    /\ paragraphs_to_process = <<>>

Parse ==
    /\ pc = "parse"
    /\ parts' = parse_markdown_formatting(text)
    /\ pc' = "parsed"
    /\ UNCHANGED <<text, para, para0, placeholder, replacement_value, doc, doc0, data,
                   i, paragraphs_to_process>>

NextParse == Parse

SpecParse == InitParse /\ [][NextParse]_vars

----------------------------------------------------------------------------
(* Runs and paragraphs.  A run is its text and the six style fields the code
   reads and writes; a paragraph is its runs and pPr, the paragraph-level
   descriptor (style name, numbering) taken as one opaque value; a table is
   the paragraphs of its cells. *)

Run(t, b, it, u, nm, sz, c) ==
    [text |-> t, bold |-> b, italic |-> it, underline |-> u,
     name |-> nm, size |-> sz, color |-> c]

\* the dict of properties the code collects from a run (lines 67-75, 311-314)
FontProps(r) ==
    [bold |-> r.bold, italic |-> r.italic, underline |-> r.underline,
     name |-> r.name, size |-> r.size, color |-> r.color]

Paragraph(rs, ppr) == [k |-> "p", runs |-> rs, pPr |-> ppr]

Table(ps) == [k |-> "tbl", cells |-> ps]

RECURSIVE JoinText(_)
\* paragraph.text: the concatenation of the runs' text
JoinText(rs) == IF rs = <<>> THEN <<>> ELSE Head(rs).text \o JoinText(Tail(rs))

ParaText(p) == JoinText(p.runs)

----------------------------------------------------------------------------
(* _replace_placeholder_in_runs *)

\* the replacement segment as a bare {'text': value}: it inherits nothing
\* from the run that held the token
ReplacementSegment_Bare(segment, value) ==
    [text |-> value, bold |-> "None", italic |-> "None", underline |-> "None",
     name |-> "None", size |-> "None", color |-> "None"]

\* line 92: new_segments_data.append({**segment, 'text': replacement_value})
ReplacementSegment(segment, value) == [segment EXCEPT !.text = value]

\* lines 86-96 for a segment whose text holds the placeholder at p (the
\* first occurrence): parts[0] if it is not empty, the replacement, and
\* "".join(parts[1:])
SplitAt(segment, ph, value, p) ==
    (IF p > 1 THEN <<[segment EXCEPT !.text = SubSeq(segment.text, 1, p - 1)]>>
     ELSE <<>>)
    \o <<ReplacementSegment(segment, value)>>
    \o <<[segment EXCEPT
            !.text = RemoveAll(After(segment.text, p + Len(ph) - 1), ph)]>>

\* lines 84-96 with p = text.find(placeholder), 0 when it is not in the text
SplitOrKeep(segment, ph, value, p) ==
    IF p # 0 THEN SplitAt(segment, ph, value, p) ELSE <<segment>>

\* lines 84-96: the segments that replace one collected segment
SplitSegment(segment, ph, value) ==
    SplitOrKeep(segment, ph, value, Find(segment.text, ph))

RECURSIVE NewSegments(_, _, _)
\* lines 81-96: new_segments_data
NewSegments(segments, ph, value) ==
    IF segments = <<>> THEN <<>>
    ELSE SplitSegment(Head(segments), ph, value)
         \o NewSegments(Tail(segments), ph, value)

\* StyledRun without lines 128-129: markdown never turns bold on
StyledRun_NoMarkdownBold(new_segment, part) ==
    [text      |-> part.text,
     bold      |-> new_segment.bold,
     italic    |-> new_segment.italic,
     underline |-> new_segment.underline,
     name      |-> new_segment.name,
     size      |-> new_segment.size,
     color     |-> new_segment.color]

\* lines 116-129: the run added for one markdown part of a new segment; a
\* property that is None (or empty) is not applied and stays None
StyledRun(new_segment, part) ==
    [text      |-> part.text,
     bold      |-> IF part.bold THEN "True" ELSE new_segment.bold,
     italic    |-> new_segment.italic,
     underline |-> new_segment.underline,
     name      |-> IF new_segment.name # "None" THEN new_segment.name ELSE "None",
     size      |-> IF new_segment.size # "None" THEN new_segment.size ELSE "None",
     color     |-> IF new_segment.color # "None" THEN new_segment.color ELSE "None"]

\* lines 107-114: the runs added for one new segment; an empty one adds none
StyledRuns(new_segment, markdown_parts) ==
    [n \in 1..Len(markdown_parts) |-> StyledRun(new_segment, markdown_parts[n])]

SegmentRuns(new_segment) ==
    IF new_segment.text = <<>> THEN <<>>
    ELSE StyledRuns(new_segment, parse_markdown_formatting(new_segment.text))

RECURSIVE AddRuns(_)
\* lines 106-129
AddRuns(new_segments) ==
    IF new_segments = <<>> THEN <<>>
    ELSE SegmentRuns(Head(new_segments)) \o AddRuns(Tail(new_segments))

\* found_replacement (lines 79, 85, 98)
FoundInRun(runs, ph) == \E n \in 1..Len(runs) : Contains(runs[n].text, ph)

\* the function without the return of lines 98-99: the runs are cleared and
\* added again also when no run holds the placeholder
replace_placeholder_in_runs_Rebuild(runs, ph, value) ==
    AddRuns(NewSegments(runs, ph, value))

\* the runs of the paragraph after _replace_placeholder_in_runs
replace_placeholder_in_runs(runs, ph, value) ==
    IF ~FoundInRun(runs, ph) THEN runs
    ELSE AddRuns(NewSegments(runs, ph, value))

\* the call on a paragraph: only its runs change
ReplaceInParagraph(p, ph, value) ==
    [p EXCEPT !.runs = replace_placeholder_in_runs(p.runs, ph, value)]

\* f"{{{{{key}}}}}"
Placeholder(key) == <<"{", "{", key, "}", "}">>

----------------------------------------------------------------------------
(* The replacement on its own: one call on a paragraph of up to MaxRuns runs *)

Bold == [bold |-> "True", italic |-> "None", underline |-> "None",
         name |-> "Arial", size |-> "Pt11", color |-> "None"]

Italic == [bold |-> "False", italic |-> "True", underline |-> "None",
           name |-> "None", size |-> "None", color |-> "C00000"]

Underlined == [bold |-> "None", italic |-> "None", underline |-> "True",
               name |-> "None", size |-> "None", color |-> "None"]

Plain == [bold |-> "None", italic |-> "None", underline |-> "None",
          name |-> "None", size |-> "None", color |-> "None"]

WithText(style, t) ==
    Run(t, style.bold, style.italic, style.underline, style.name, style.size,
        style.color)

TokenX == Placeholder("X")

RunPool ==
    { WithText(Bold, <<"Built", " ">> \o TokenX),
      WithText(Italic, <<"a">>),
      WithText(Plain, TokenX \o <<" ">> \o TokenX),
      WithText(Underlined, <<"(">> \o TokenX \o <<")">>),
      WithText(Bold, <<"{", "{">>),
      WithText(Italic, <<"X", "}", "}">>),
      WithText(Underlined, <<"a", "*", "b", "*">>),
      WithText(Italic, <<>>) }

ValuePool ==
    { <<"5", " ", "services">>,
      <<"Grew", " ", "*", "40", "*">>,
      <<"*", "*", "Lead", "*", "*", " ", "dev">>,
      <<>> }

RECURSIVE SeqsUpTo(_, _)
\* the sequences over S of length at most n
SeqsUpTo(S, n) ==
    IF n = 0 THEN {<<>>}
    ELSE LET shorter == SeqsUpTo(S, n - 1)
         IN  shorter \cup {Append(q, x) : q \in {u \in shorter : Len(u) = n - 1}, x \in S}

InitRun ==
    /\ pc = "replace"
    /\ \E rs \in SeqsUpTo(RunPool, MaxRuns) :
          /\ para = Paragraph(rs, "Normal")
          /\ para0 = Paragraph(rs, "Normal")
    /\ placeholder = TokenX
    /\ replacement_value \in ValuePool
    /\ text = <<>>
    /\ parts = <<>>
    /\ doc = <<>>
    /\ doc0 = <<>>
    /\ data = <<>>
    /\ i = 0
    /\ paragraphs_to_process = <<>>

Replace ==
    /\ pc = "replace"
    /\ para' = ReplaceInParagraph(para, placeholder, replacement_value)
    /\ pc' = "replaced"
    /\ UNCHANGED <<text, parts, para0, placeholder, replacement_value, doc, doc0, data,
                   i, paragraphs_to_process>>

NextRun == Replace

SpecRun == InitRun /\ [][NextRun]_vars

----------------------------------------------------------------------------
(* Claims about parse_markdown_formatting (SpecParse) *)

RECURSIVE Rebuild(_, _)
\* the segments ps written back with ds[n] stars on both sides of segment n
\* when it is emphasized
Rebuild(ps, ds) ==
    IF ps = <<>> THEN <<>>
    ELSE (IF Head(ps).bold
          THEN Stars(Head(ds)) \o Head(ps).text \o Stars(Head(ds))
          ELSE Head(ps).text)
         \o Rebuild(Tail(ps), Tail(ds))

\* t holds a span: one or two stars, at least one symbol that is not a
\* newline, and the same number of stars again
HasSpan(t) ==
    \E s \in 1..Len(t), d \in {1, 2}, e \in 1..Len(t) :
        /\ IsAt(t, s, Stars(d))
        /\ e > s + d
        /\ IsAt(t, e, Stars(d))
        /\ NoNewline(SubSeq(t, s + d, e - 1))

\* C8: parse(text) returns the segments in text order: an emphasized segment
\* is the non-empty inner content of a span opened and closed by the same
\* number (one or two) of stars, the segments with those delimiters put back
\* are the input, spans are taken left to right without overlap (no plain
\* segment still holds a span), and without any span the result is the one
\* segment (text, not emphasized).
C8_ParseSegments ==
    pc = "parsed" =>
        /\ \A n \in 1..Len(parts) : parts[n].bold => parts[n].text # <<>>
        /\ \E ds \in [1..Len(parts) -> {1, 2}] : Rebuild(parts, ds) = text
        /\ \A n \in 1..Len(parts) : ~parts[n].bold => ~HasSpan(parts[n].text)
        /\ ~HasSpan(text) => parts = <<Part(text, FALSE)>>
        /\ HasSpan(text) => \E n \in 1..Len(parts) : parts[n].bold

\* C8 witness: a text with a plain segment, an emphasized one and a plain one
C8_Witness ==
    /\ pc = "parsed"
    /\ Len(parts) = 3
    /\ ~parts[1].bold /\ parts[2].bold /\ ~parts[3].bold
    /\ Len(text) = Len(parts[1].text) + Len(parts[2].text) + Len(parts[3].text) + 2

----------------------------------------------------------------------------
(* Claims about _replace_placeholder_in_runs (SpecRun).  para0 is the
   paragraph before the call, para the paragraph after it.  The runs after
   the call are read as one group of consecutive runs per run before the
   call, in order. *)

StarFree(t) == RemoveAll(t, <<"*">>)

Holds(r) == Contains(r.text, placeholder)

\* a group that can stand for a run without the token: the same text, up to
\* the stars the markdown parser may have taken
SameTextGroup(r, g) == StarFree(JoinText(g)) = StarFree(r.text)

Groups(out) == 0..Len(out)

\* every run of group g has the six style fields of r
SameStyle(r, g) == \A n \in 1..Len(g) : FontProps(g[n]) = FontProps(r)

\* every run of group g has the style of r, but for bold turned on where the
\* text or the value has emphasis markup
SameStyleButMarkdownBold(r, g) ==
    \A n \in 1..Len(g) :
        \/ FontProps(g[n]) = FontProps(r)
        \/ /\ FontProps(g[n]) = [FontProps(r) EXCEPT !.bold = "True"]
           /\ HasSpan(replacement_value) \/ HasSpan(r.text)

RECURSIVE C4_AllInherit(_, _)
C4_AllInherit(in, out) ==
    IF in = <<>> THEN out = <<>>
    ELSE \E j \in Groups(out) :
            /\ IF Holds(Head(in))
               THEN SameStyle(Head(in), SubSeq(out, 1, j))
               ELSE SameTextGroup(Head(in), SubSeq(out, 1, j))
            /\ C4_AllInherit(Tail(in), SubSeq(out, j + 1, Len(out)))

RECURSIVE C4_InheritButBold(_, _)
C4_InheritButBold(in, out) ==
    IF in = <<>> THEN out = <<>>
    ELSE \E j \in Groups(out) :
            /\ IF Holds(Head(in))
               THEN SameStyleButMarkdownBold(Head(in), SubSeq(out, 1, j))
               ELSE SameTextGroup(Head(in), SubSeq(out, 1, j))
            /\ C4_InheritButBold(Tail(in), SubSeq(out, j + 1, Len(out)))

\* C4 as stated: when a token found inside a run is substituted, the prefix,
\* replacement and suffix runs all carry the full style record (bold, italic,
\* underline, font name, size, color) of the run that held the token.
C4_Original ==
    (pc = "replaced" /\ FoundInRun(para0.runs, placeholder))
        => C4_AllInherit(para0.runs, para.runs)

\* C4 amended: the prefix, replacement and suffix runs carry the italic,
\* underline, font name, size and color of the run that held the token, and
\* its bold as well except on the sub-segments that emphasis markup turns
\* bold; the replacement never gets a default style.
C4_Amended ==
    (pc = "replaced" /\ FoundInRun(para0.runs, placeholder))
        => C4_InheritButBold(para0.runs, para.runs)

\* C4 witness: "Built {{X}}" in a bold Arial run with X = "5 services" gives
\* the two bold Arial runs "Built " and "5 services"
C4_Witness ==
    /\ pc = "replaced"
    /\ para0.runs = <<WithText(Bold, <<"Built", " ">> \o TokenX)>>
    /\ replacement_value = <<"5", " ", "services">>
    /\ para.runs = <<WithText(Bold, <<"Built", " ">>),
                     WithText(Bold, <<"5", " ", "services">>)>>

\* C5 as stated: a token present in the paragraph's text but split across
\* adjacent runs is still substituted: afterwards the text up to the token's
\* position is as before and the token is gone from the text.
C5_SplitTokenSubstituted ==
    (/\ pc = "replaced"
     /\ Contains(ParaText(para0), placeholder)
     /\ ~FoundInRun(para0.runs, placeholder))
        => LET p == Find(ParaText(para0), placeholder)
           IN  /\ ~Contains(ParaText(para), placeholder)
               /\ SubSeq(ParaText(para), 1, p - 1) = SubSeq(ParaText(para0), 1, p - 1)

RECURSIVE C6_Aligned(_, _)
\* a run without the token stands again as runs of its text (up to the stars
\* of markup) and of its style; a run without text may be dropped
C6_Aligned(in, out) ==
    IF in = <<>> THEN out = <<>>
    ELSE \E j \in Groups(out) :
            /\ \/ Holds(Head(in))
               \/ Head(in).text = <<>> /\ j = 0
               \/ /\ j >= 1
                  /\ SameTextGroup(Head(in), SubSeq(out, 1, j))
                  /\ SameStyle(Head(in), SubSeq(out, 1, j))
            /\ C6_Aligned(Tail(in), SubSeq(out, j + 1, Len(out)))

\* C6 as stated: when a token is substituted in a paragraph with several
\* runs, every run (with text) that did not contain the token is re-emitted
\* at the same relative position with the same six style fields (bold,
\* italic, underline, font name, size, color), whatever its text is.
C6_OtherRunsKept ==
    (pc = "replaced" /\ FoundInRun(para0.runs, placeholder))
        => C6_Aligned(para0.runs, para.runs)

\* the runs the claim expects for the value substituted in run r
ValueRuns(r, value) ==
    IF value = <<>> THEN <<>>
    ELSE LET ps == parse_markdown_formatting(value)
         IN  [n \in 1..Len(ps) |->
                 IF ps[n].bold
                 THEN [r EXCEPT !.text = ps[n].text, !.bold = "True"]
                 ELSE [r EXCEPT !.text = ps[n].text]]

\* the runs e stand, consecutively, somewhere in group g
Within(e, g) ==
    \E a \in 0..Len(g) : a + Len(e) <= Len(g) /\ SubSeq(g, a + 1, a + Len(e)) = e

RECURSIVE C7_Aligned(_, _)
C7_Aligned(in, out) ==
    IF in = <<>> THEN out = <<>>
    ELSE \E j \in Groups(out) :
            /\ IF Holds(Head(in))
               THEN Within(ValueRuns(Head(in), replacement_value), SubSeq(out, 1, j))
               ELSE SameTextGroup(Head(in), SubSeq(out, 1, j))
            /\ C7_Aligned(Tail(in), SubSeq(out, j + 1, Len(out)))

\* C7: a substituted value is emitted as one run per sub-segment of its
\* markup, in the order of the value's text: an emphasized sub-segment has
\* bold on whatever the enclosing run's bold was, a non-emphasized one has
\* exactly the style of the enclosing run.
C7_MarkupRuns ==
    (pc = "replaced" /\ FoundInRun(para0.runs, placeholder))
        => C7_Aligned(para0.runs, para.runs)

\* C7 witness: "Grew *40%*" substituted in a run whose bold is not on
C7_Witness ==
    /\ pc = "replaced"
    /\ replacement_value = <<"Grew", " ", "*", "40", "*">>
    /\ para0.runs = <<WithText(Underlined, <<"(">> \o TokenX \o <<")">>)>>
    /\ para.runs = <<WithText(Underlined, <<"(">>),
                     WithText(Underlined, <<"Grew", " ">>),
                     [WithText(Underlined, <<"40">>) EXCEPT !.bold = "True"],
                     WithText(Underlined, <<")">>)>>

----------------------------------------------------------------------------
(* Data: the mapping loaded from JSON, in key order.  A value is a string,
   a number, a list or a dict (a record of a repeating block). *)

StrV(t) == [k |-> "str", s |-> t]

IntV(n) == [k |-> "int", n |-> n]

ListV(xs) == [k |-> "list", xs |-> xs]

DictV(es) == [k |-> "dict", es |-> es]

Entry(key, v) == [key |-> key, value |-> v]

\* Python's str(value); the repr of a list or a dict is one symbol
str(v) ==
    CASE v.k = "str"  -> v.s
      [] v.k = "int"  -> <<ToString(v.n)>>
      [] v.k = "list" -> <<"[...]">>
      [] v.k = "dict" -> <<"{...}">>

\* `key in d` and d[key] for a mapping kept as a sequence of entries
HasKey(d, key) == \E n \in 1..Len(d) : d[n].key = key

Get(d, key) == d[CHOOSE n \in 1..Len(d) : d[n].key = key].value

----------------------------------------------------------------------------
(* The document body: a sequence of elements, paragraphs and tables *)

RECURSIVE PositionsOf(_, _, _)
\* the positions in d, from n on, of the elements of kind k
PositionsOf(d, n, k) ==
    IF n > Len(d) THEN <<>>
    ELSE (IF d[n].k = k THEN <<n>> ELSE <<>>) \o PositionsOf(d, n + 1, k)

\* doc.paragraphs: the paragraphs of the body, not those of table cells
ParaPositions(d) == PositionsOf(d, 1, "p")

\* the elements of d at the positions pos, in that order
ElementsAt(d, pos) == [n \in 1..Len(pos) |-> d[pos[n]]]

Paragraphs(d) == ElementsAt(d, ParaPositions(d))

\* doc.tables
TablePositions(d) == PositionsOf(d, 1, "tbl")

\* doc.add_paragraph(): a paragraph without runs or pPr, appended to the body
EmptyParagraph == Paragraph(<<>>, "None")

RECURSIVE Without(_, _, _)
\* d without the elements at the positions R (counted from n = 1)
Without(d, R, n) ==
    IF n > Len(d) THEN <<>>
    ELSE (IF n \in R THEN <<>> ELSE <<d[n]>>) \o Without(d, R, n + 1)

----------------------------------------------------------------------------
(* Block markers *)

\* the symbols \w does not match; every other symbol is a word
NonWord == {"{", "}", "#", "/", "*", " ", "(", ")", NL}

RECURSIVE WordRun(_, _)
\* the length of the run of words of t that starts at p: what \w+ takes
WordRun(t, p) ==
    IF p > Len(t) \/ t[p] \in NonWord THEN 0 ELSE 1 + WordRun(t, p + 1)

\* the pattern {{#(\w+)}} matches at position p
OpenMarkerAt(t, p) ==
    /\ IsAt(t, p, <<"{", "{", "#">>)
    /\ WordRun(t, p + 3) >= 1
    /\ IsAt(t, p + 3 + WordRun(t, p + 3), <<"}", "}">>)

\* re.search(r'{{#(\w+)}}', t): group(1) of the leftmost match, <<>> (no
\* match) when there is none
MarkerName(t, p) ==
    IF p = 0 THEN <<>> ELSE SubSeq(t, p + 3, p + 2 + WordRun(t, p + 3))

SearchOpenMarker(t) == MarkerName(t, MinOr0({p \in 1..Len(t) : OpenMarkerAt(t, p)}))

\* a matched name is a key of the data only when it is one word: no two
\* words of the model spell a key together
BlockInData(d, block_name) ==
    /\ Len(block_name) = 1
    /\ HasKey(d, block_name[1])
    /\ Get(d, block_name[1]).k = "list"

\* f'{{{{/{block_name}}}}}'
CloseMarker(block_name) == <<"{", "{", "/">> \o block_name \o <<"}", "}">>

\* ClosingIdx that falls back on the last paragraph when no later paragraph
\* holds the close marker
ClosingIdx_OrLast(ps, idx, block_name) ==
    IF \E j \in (idx + 2)..Len(ps) :
           Contains(ParaText(ps[j]), <<"{", "{", "/">> \o block_name \o <<"}", "}">>)
    THEN MinOr0({j \in (idx + 2)..Len(ps) :
                    Contains(ParaText(ps[j]),
                             <<"{", "{", "/">> \o block_name \o <<"}", "}">>)}) - 1
    ELSE Len(ps) - 1

\* lines 252-256: the index (0-based, as in the code) of the closing paragraph, -1 without one
ClosingIdx(ps, idx, block_name) ==
    MinOr0({j \in (idx + 2)..Len(ps) :
               Contains(ParaText(ps[j]), CloseMarker(block_name))}) - 1

----------------------------------------------------------------------------
(* set_paragraph_text_with_formatting on a new paragraph.  props is <<>> for
   None and <<dict>> for a dict of run properties. *)

\* lines 169-180: the run added for one markdown part
FormattedRun(part, props) ==
    [text      |-> part.text,
     bold      |-> IF part.bold THEN "True" ELSE "False",
     italic    |-> IF props # <<>> THEN props[1].italic ELSE "None",
     underline |-> IF props # <<>> THEN props[1].underline ELSE "None",
     name      |-> IF props # <<>> THEN props[1].name ELSE "None",
     size      |-> IF props # <<>> THEN props[1].size ELSE "None",
     color     |-> IF props # <<>> THEN props[1].color ELSE "None"]

FormattedRuns(segments, props) ==
    [n \in 1..Len(segments) |-> FormattedRun(segments[n], props)]

set_paragraph_text_with_formatting(t, props) ==
    FormattedRuns(parse_markdown_formatting(t), props)

\* lines 318-321 and 392-398: the paragraph made for one further list item,
\* with a copy of the pPr of the paragraph it follows
NewListItemPara(item, props, pPr) ==
    Paragraph(set_paragraph_text_with_formatting(str(item), props), pPr)

RECURSIVE NewListItemParas(_, _, _)
\* lines 317-322 and 391-401: one new paragraph per further item, in item order
NewListItemParas(items, props, pPr) ==
    IF items = <<>> THEN <<>>
    ELSE <<NewListItemPara(Head(items), props, pPr)>>
         \o NewListItemParas(Tail(items), props, pPr)

\* lines 308-315 and 370-376: the properties of the first run whose text
\* holds t, None (<<>>) when no run does
PropsOfRun(runs, n) == IF n = 0 THEN <<>> ELSE <<FontProps(runs[n])>>

FirstRunProps(runs, t) ==
    PropsOfRun(runs, MinOr0({n \in 1..Len(runs) : Contains(runs[n].text, t)}))

----------------------------------------------------------------------------
(* Repeating blocks: the paragraphs generated for one record *)

\* lines 278-282: the position in item_data of the first list-valued key
\* whose placeholder is in the template paragraph's text; 0 for None
ListKeyInPara(item_data, template_para) ==
    MinOr0({n \in 1..Len(item_data) :
               /\ Contains(ParaText(template_para), Placeholder(item_data[n].key))
               /\ item_data[n].value.k = "list"})

RECURSIVE ReplaceRecordScalars(_, _, _)
\* lines 299-301 and 327-329: every non-list value of the record replaced in
\* p, in key order, but for the key at position skip
\* lines 300-301 and 328-329 for one key of the record
ReplaceRecordScalar(p, key, value, skipped) ==
    IF ~skipped /\ value.k # "list"
    THEN ReplaceInParagraph(p, Placeholder(key), str(value))
    ELSE p

ReplaceRecordScalars(p, item_data, skip) ==
    IF item_data = <<>> THEN p
    ELSE ReplaceRecordScalars(
             ReplaceRecordScalar(p, Head(item_data).key, Head(item_data).value,
                                 skip = 1),
             Tail(item_data), skip - 1)

\* a generated paragraph; copy tells that it is a deepcopy assigned to _p of
\* a paragraph made by doc.add_paragraph(), which stays in the body, empty
Generated(p, copy) == [p |-> p, copy |-> copy]

NotCopies(ps) == [n \in 1..Len(ps) |-> Generated(ps[n], FALSE)]

\* lines 286-322: a template paragraph with a list placeholder
\* lines 303-322: the first item's paragraph, and one paragraph per further
\* item with the properties of the run of the first paragraph that holds the
\* first item's text
FirstAndFurther(list_items, first_item_para) ==
    <<Generated(first_item_para, TRUE)>>
    \o (IF Len(list_items) > 1
        THEN NotCopies(NewListItemParas(
                 Tail(list_items),
                 FirstRunProps(first_item_para.runs, str(list_items[1])),
                 first_item_para.pPr))
        ELSE <<>>)

\* lines 291-295: first_item_text
FirstItemText(list_items) ==
    IF list_items # <<>> THEN str(list_items[1]) ELSE <<>>

ListTemplateParas(item_data, template_para, n) ==
    FirstAndFurther(
        item_data[n].value.xs,
        ReplaceRecordScalars(
            ReplaceInParagraph(template_para, Placeholder(item_data[n].key),
                               FirstItemText(item_data[n].value.xs)),
            item_data, n))

\* lines 276-330: the paragraphs generated for one record and one template
\* paragraph
\* n is the position of list_key_in_para in item_data, 0 for None
TemplateParasFor(item_data, template_para, n) ==
    IF n # 0 THEN ListTemplateParas(item_data, template_para, n)
    ELSE <<Generated(ReplaceRecordScalars(template_para, item_data, 0), TRUE)>>

TemplateParas(item_data, template_para) ==
    TemplateParasFor(item_data, template_para, ListKeyInPara(item_data, template_para))

RECURSIVE RecordParas(_, _)
RecordParas(item_data, template_paras) ==
    IF template_paras = <<>> THEN <<>>
    ELSE TemplateParas(item_data, Head(template_paras))
         \o RecordParas(item_data, Tail(template_paras))

\* item_data.items() raises AttributeError when the item is not a dict; it is
\* called once per template paragraph
ItemRaises(item, template_paras) == item.k # "dict" /\ template_paras # <<>>

RECURSIVE GenerateBlock(_, _)
\* lines 274-330: generated_paragraph_elements, and whether the loop raised
\* the paragraphs of one record followed by the outcome for the later ones
Before(mine, rest) == [gen |-> mine \o rest.gen, raised |-> rest.raised]

GenerateBlock(items, template_paras) ==
    IF items = <<>> THEN [gen |-> <<>>, raised |-> FALSE]
    ELSE IF ItemRaises(Head(items), template_paras)
    THEN [gen |-> <<>>, raised |-> TRUE]
    ELSE Before(IF template_paras = <<>> THEN <<>>
                ELSE RecordParas(Head(items).es, template_paras),
                GenerateBlock(Tail(items), template_paras))

\* the paragraphs doc.add_paragraph() appended to the body while gen was
\* generated, as long as none of gen is inserted elsewhere
Appended(gen) ==
    [n \in 1..Len(gen) |-> IF gen[n].copy THEN EmptyParagraph ELSE gen[n].p]

\* what is left at the end of the body once gen is inserted after the anchor:
\* lxml moves an element that is already in the tree, a copy is not in it
LeftBehind(gen) ==
    [n \in 1..Cardinality({m \in 1..Len(gen) : gen[m].copy}) |-> EmptyParagraph]

GeneratedParas(gen) == [n \in 1..Len(gen) |-> gen[n].p]

----------------------------------------------------------------------------
(* fill_docx_template, stage 1: repeating blocks (lines 234-349) *)

\* all_paragraphs: rebuilt from the document after every change of it
all_paragraphs(d) == Paragraphs(d)

\* match.group(1) for all_paragraphs[idx]
BlockName(d, idx) == SearchOpenMarker(ParaText(all_paragraphs(d)[idx + 1]))

\* lines 240-260: the paragraph at idx opens a block that is expanded
ExpandableNamed(d, dt, idx, block_name) ==
    /\ block_name # <<>>
    /\ BlockInData(dt, block_name)
    /\ ClosingIdx(all_paragraphs(d), idx, block_name) # -1

Expandable(d, dt, idx) == ExpandableNamed(d, dt, idx, BlockName(d, idx))

\* lines 332-344: the generated paragraphs inserted after the anchor (the
\* number of body elements before the opening paragraph, 0 for None).
\* doc._body is python-docx's _Body proxy, which has no insert method: with
\* no anchor, the first body.insert(0, p_elem) raises AttributeError, after
\* the block was removed
Splice(body, anchor_element, g) ==
    IF g.raised \/ (anchor_element = 0 /\ g.gen # <<>>)
    THEN [doc |-> body \o Appended(g.gen), raised |-> TRUE]
    ELSE [doc |-> SubSeq(body, 1, anchor_element)
                  \o GeneratedParas(g.gen)
                  \o SubSeq(body, anchor_element + 1, Len(body))
                  \o LeftBehind(g.gen),
          raised |-> FALSE]

\* lines 269-271: the body positions of the paragraphs idx..closing_idx
BlockPositions(pos, idx, closing_idx) ==
    {pos[n] : n \in (idx + 1)..(closing_idx + 1)}

\* lines 265-344 once the closing paragraph is found
ExpandBetween(d, idx, closing_idx, items) ==
    Splice(Without(d, BlockPositions(ParaPositions(d), idx, closing_idx), 1),
           ParaPositions(d)[idx + 1] - 1,
           GenerateBlock(items, SubSeq(all_paragraphs(d), idx + 2, closing_idx)))

\* lines 250-344 for the block named block_name
ExpandNamed(d, dt, idx, block_name) ==
    ExpandBetween(d, idx, ClosingIdx(all_paragraphs(d), idx, block_name),
                  Get(dt, block_name[1]).xs)

\* lines 245-344: the block opened at idx expanded: the document afterwards,
\* and whether the expansion raised
ExpandBlock(d, dt, idx) == ExpandNamed(d, dt, idx, BlockName(d, idx))

----------------------------------------------------------------------------
(* Stage 2: top-level list placeholders (lines 354-404) *)

\* the keys lines 358-359 name
ListKeys == {"KEY_ACHIEVEMENTS", "TECHNICAL_STACK"}

RECURSIVE ExpandLists(_, _)
\* the new paragraphs of one key go right after the paragraph: before those
\* a key handled earlier has put there
WithInserted(later, new) == [p |-> later.p, inserted |-> later.inserted \o new]

\* lines 367-401: the first item (or "" for an empty list) replaces the
\* placeholder, the further items become new paragraphs
ExpandListKey(p, ph, list_items, rest) ==
    WithInserted(
        ExpandLists(ReplaceInParagraph(p, ph, FirstItemText(list_items)), rest),
        IF list_items = <<>> THEN <<>>
        ELSE NewListItemParas(Tail(list_items), FirstRunProps(p.runs, ph), p.pPr))

\* lines 357-361: the keys the stage handles
IsListKey(p, key, value) ==
    value.k = "list" /\ key \in ListKeys /\ Contains(ParaText(p), Placeholder(key))

\* lines 356-404 for one paragraph: the paragraph afterwards, and the new
\* paragraphs that follow it
ExpandLists(p, entries) ==
    IF entries = <<>> THEN [p |-> p, inserted |-> <<>>]
    ELSE IF IsListKey(p, Head(entries).key, Head(entries).value)
    THEN ExpandListKey(p, Placeholder(Head(entries).key), Head(entries).value.xs,
                       Tail(entries))
    ELSE ExpandLists(p, Tail(entries))

\* the positions of the snapshot after n paragraphs were inserted after q
Shifted(positions, q, n) ==
    [m \in 1..Len(positions) |->
        IF positions[m] > q THEN positions[m] + n ELSE positions[m]]

----------------------------------------------------------------------------
(* Stage 3: simple placeholders, in body paragraphs and in table cells
   (lines 408-421) *)

RECURSIVE ReplaceSimple(_, _)
\* lines 409-412 and 418-421 for one paragraph
\* lines 410-412 for one key
ReplaceSimpleKey(p, key, value) ==
    IF value.k \notin {"list", "dict"} /\ Contains(ParaText(p), Placeholder(key))
    THEN ReplaceInParagraph(p, Placeholder(key), str(value))
    ELSE p

ReplaceSimple(p, entries) ==
    IF entries = <<>> THEN p
    ELSE ReplaceSimple(ReplaceSimpleKey(p, Head(entries).key, Head(entries).value),
                       Tail(entries))

\* lines 415-421 for one table
FillTable(t, entries) ==
    [t EXCEPT !.cells = [n \in 1..Len(t.cells) |-> ReplaceSimple(t.cells[n], entries)]]

----------------------------------------------------------------------------
(* remove_trailing_empty_paragraphs *)

\* line 221: no text and no runs
IsEmptyPara(p) == p.runs = <<>>

RECURSIVE TrailingEmpty(_, _)
\* lines 216-227: how many of the paragraphs ps[1..n], counted from the last
\* one backwards, are removed before the loop breaks
TrailingEmpty(ps, n) ==
    IF n = 0 \/ ~IsEmptyPara(ps[n]) THEN 0 ELSE 1 + TrailingEmpty(ps, n - 1)

\* the loop walks document.paragraphs: a table is not a paragraph, so it
\* neither stops the loop nor is removed
\* d without its last n paragraphs, which stand at the last n of pos
WithoutLast(d, pos, n) ==
    Without(d, {pos[m] : m \in (Len(pos) - n + 1)..Len(pos)}, 1)

remove_trailing_empty_paragraphs(d) ==
    WithoutLast(d, ParaPositions(d),
                TrailingEmpty(Paragraphs(d), Len(ParaPositions(d))))

----------------------------------------------------------------------------
(* The documents and the data the pipeline is run on *)

P(style, t, pPr) == Paragraph(<<WithText(style, t)>>, pPr)

Heading == P(Bold, <<"Curriculum">>, "Title")

IntroTable ==
    Table(<<P(Plain, <<"Name", " ">> \o Placeholder("NAME"), "Normal"),
            P(Italic, Placeholder("NAME") \o Placeholder("NAME"), "Normal")>>)

OpenPara == P(Plain, <<"{", "{", "#", "EXPERIENCE", "}", "}">>, "Normal")

ClosePara == P(Plain, <<"{", "{", "/", "EXPERIENCE", "}", "}">>, "Normal")

TitlePara ==
    Paragraph(<<WithText(Bold, Placeholder("TITLE")),
                WithText(Plain, <<" ", "of", " ">> \o Placeholder("NAME"))>>,
              "Heading2")

DescriptionPara == P(Bold, Placeholder("DESCRIPTION"), "ListBullet")

DatesPara == P(Italic, <<"(">> \o Placeholder("YEARS") \o <<")">>, "Normal")

NamePara ==
    P(Underlined, Placeholder("NAME") \o <<" ", "(">> \o Placeholder("YEARS") \o <<")">>,
      "Normal")

TwicePara == P(Plain, Placeholder("NAME") \o <<" ">> \o Placeholder("NAME"), "Normal")

SplitPara ==
    Paragraph(<<WithText(Bold, <<"{", "{">>), WithText(Plain, <<"NAME", "}", "}">>)>>,
              "Normal")

AchievementsPara == P(Bold, Placeholder("KEY_ACHIEVEMENTS"), "ListBullet")

StackPara ==
    P(Italic, <<"Stack", " ">> \o Placeholder("TECHNICAL_STACK"), "ListNumber")

SkillsPara == P(Bold, Placeholder("SKILLS"), "ListBullet")

Footer == P(Plain, <<"References">>, "Normal")

BlankPara == Paragraph(<<>>, "Normal")

\* a paragraph without any token, with emphasis markup in its text
EmphPara == P(Underlined, <<"a", "*", "b", "*">>, "Normal")

\* marker paragraphs of a block named name
OpenMarker(name) == P(Plain, <<"{", "{", "#", name, "}", "}">>, "Normal")

CloseMarkerPara(name) == P(Plain, <<"{", "{", "/", name, "}", "}">>, "Normal")

\* a paragraph with two open markers, the first of a name that is not in the data
TwoOpenPara ==
    P(Plain, <<"{", "{", "#", "UNKNOWN", "}", "}", "{", "{", "#", "EXPERIENCE", "}", "}">>,
      "Normal")

\* what precedes the block: nothing, a paragraph or a table
Preambles == {<<>>, <<Heading>>, <<IntroTable>>}

\* the block: none, or the markers around template paragraphs
Blocks ==
    { <<>>,
      <<OpenPara, ClosePara>>,
      <<OpenPara, DescriptionPara, ClosePara>>,
      <<OpenPara, TitlePara, DescriptionPara, DatesPara, ClosePara>> }

\* blocks that are not well formed: a name the data maps to a scalar, to a
\* list of scalars or to nothing, an open marker without a close marker after
\* it, two open markers in one paragraph; and a template paragraph without
\* any token
OddBlocks ==
    { <<OpenMarker("NAME"), TitlePara, CloseMarkerPara("NAME")>>,
      <<OpenMarker("SKILLS"), EmphPara, CloseMarkerPara("SKILLS")>>,
      <<OpenMarker("SKILLS"), CloseMarkerPara("SKILLS")>>,
      <<OpenMarker("UNKNOWN"), DescriptionPara, CloseMarkerPara("UNKNOWN")>>,
      <<OpenPara, DescriptionPara>>,
      <<ClosePara, OpenPara, TitlePara>>,
      <<OpenMarker("SKILLS"), OpenPara, DescriptionPara, ClosePara>>,
      <<TwoOpenPara, DescriptionPara, ClosePara>>,
      <<OpenPara, EmphPara, DescriptionPara, ClosePara>> }

\* what follows the block
Endings ==
    { <<>>,
      <<NamePara>>,
      <<TwicePara, Footer>>,
      <<SplitPara>>,
      <<AchievementsPara, Footer>>,
      <<StackPara, AchievementsPara>>,
      <<SkillsPara, Footer>>,
      <<BlankPara, Footer, BlankPara, BlankPara>>,
      <<BlankPara, IntroTable>> }

\* a table with a cell that holds no token
LabelTable ==
    Table(<<P(Underlined, <<"Years">>, "Normal"),
            P(Bold, Placeholder("YEARS"), "Normal")>>)

\* a table without any token
FilledTable ==
    Table(<<P(Plain, <<"Name", " ", "Ann">>, "Normal"), P(Italic, <<"5">>, "Normal")>>)

\* endings for the blocks that are not well formed
OddEndings ==
    { <<>>,
      <<EmphPara>>,
      <<BlankPara, Footer, BlankPara>>,
      <<EmphPara, LabelTable>>,
      <<BlankPara, FilledTable>> }

Docs ==
    {a \o b \o c : a \in Preambles, b \in Blocks, c \in Endings}
    \cup {a \o b \o c : a \in Preambles, b \in Blocks \cup OddBlocks, c \in OddEndings}

\* list item n: a string, a string with emphasis markup, a number
Item(n) ==
    CASE n = 1 -> StrV(<<"Go">>)
      [] n = 2 -> StrV(<<"*", "Rust", "*", " ", "core">>)
      [] n = 3 -> IntV(3)
      [] OTHER -> StrV(<<"Skill", ToString(n)>>)

Items(n) == [m \in 1..n |-> Item(m)]

\* record r of the repeating block
Record(r, n) ==
    DictV(<<Entry("TITLE", StrV(<<"Job", ToString(r)>>)),
            Entry("DESCRIPTION", ListV(Items(n)))>>)

Records(r, n) == [m \in 1..r |-> Record(m, n)]

Data(r, n) ==
    <<Entry("NAME", StrV(<<"Ann">>)),
      Entry("YEARS", IntV(5)),
      Entry("KEY_ACHIEVEMENTS", ListV(Items(n))),
      Entry("TECHNICAL_STACK", ListV(Items(n))),
      Entry("SKILLS", ListV(Items(n))),
      Entry("EXPERIENCE", ListV(Records(r, n)))>>

\* a record whose values hold tokens: its list field gives the markers of
\* the block and the token of the field itself
LoopRecord ==
    DictV(<<Entry("TITLE", StrV(Placeholder("TITLE"))),
            Entry("DESCRIPTION",
                  ListV(<<StrV(<<"{", "{", "#", "EXPERIENCE", "}", "}">>),
                          StrV(Placeholder("DESCRIPTION")),
                          StrV(<<"{", "{", "/", "EXPERIENCE", "}", "}">>)>>))>>)

LoopData ==
    <<Entry("NAME", StrV(Placeholder("NAME"))),
      Entry("YEARS", IntV(5)),
      Entry("KEY_ACHIEVEMENTS", ListV(Items(1))),
      Entry("TECHNICAL_STACK", ListV(Items(1))),
      Entry("SKILLS", ListV(Items(1))),
      Entry("EXPERIENCE", ListV(<<LoopRecord>>))>>

DataPool == {Data(r, n) : r \in 0..MaxRecords, n \in 0..MaxItems} \cup {LoopData}

----------------------------------------------------------------------------
(* The pipeline of main: fill_docx_template, then
   remove_trailing_empty_paragraphs.  doc0 is the document as loaded. *)

Init ==
    /\ pc = "blocks"
    /\ doc \in Docs
    /\ doc0 = doc
    /\ data \in DataPool
    /\ i = 0
    /\ paragraphs_to_process = <<>>
    /\ text = <<>>
    /\ parts = <<>>
    /\ para = NoPara
    /\ para0 = NoPara
    /\ placeholder = <<>>
    /\ replacement_value = <<>>

Unused == <<text, parts, para, para0, placeholder, replacement_value>>

\* lines 241-243, 247-249, 258-260: the paragraph opens no block to expand
BlockSkip ==
    /\ pc = "blocks"
    /\ i < Len(all_paragraphs(doc))
    /\ ~Expandable(doc, data, i)
    /\ i' = i + 1
    /\ UNCHANGED <<pc, doc, doc0, data, paragraphs_to_process, Unused>>

\* lines 262-349: the block is expanded and the scan restarts
BlockExpand ==
    /\ pc = "blocks"
    /\ i < Len(all_paragraphs(doc))
    /\ Expandable(doc, data, i)
    /\ Len(doc) <= MaxBodyLen
    /\ \E r \in {ExpandBlock(doc, data, i)} :
          /\ ~r.raised
          /\ doc' = r.doc
    /\ i' = 0
    /\ UNCHANGED <<pc, doc0, data, paragraphs_to_process, Unused>>

\* the expansion raises: fill_docx_template is left by the exception
BlockRaise ==
    /\ pc = "blocks"
    /\ i < Len(all_paragraphs(doc))
    /\ Expandable(doc, data, i)
    /\ \E r \in {ExpandBlock(doc, data, i)} :
          /\ r.raised
          /\ doc' = r.doc
    /\ pc' = "raised"
    /\ UNCHANGED <<i, doc0, data, paragraphs_to_process, Unused>>

\* line 237 is false; line 354 takes the snapshot of the paragraphs
BlocksDone ==
    /\ pc = "blocks"
    /\ i >= Len(all_paragraphs(doc))
    /\ pc' = "lists"
    /\ paragraphs_to_process' = ParaPositions(doc)
    /\ i' = 0
    /\ UNCHANGED <<doc, doc0, data, Unused>>

\* lines 355-404 for the next paragraph of the snapshot
ListStep ==
    /\ pc = "lists"
    /\ i < Len(paragraphs_to_process)
    /\ \E q \in {paragraphs_to_process[i + 1]} :
          \E r \in {ExpandLists(doc[q], data)} :
             /\ doc' = SubSeq(doc, 1, q - 1) \o <<r.p>> \o r.inserted
                       \o SubSeq(doc, q + 1, Len(doc))
             /\ paragraphs_to_process' =
                    Shifted(paragraphs_to_process, q, Len(r.inserted))
    /\ i' = i + 1
    /\ UNCHANGED <<pc, doc0, data, Unused>>

ListsDone ==
    /\ pc = "lists"
    /\ i >= Len(paragraphs_to_process)
    /\ pc' = "scalars"
    /\ i' = 0
    /\ UNCHANGED <<doc, doc0, data, paragraphs_to_process, Unused>>

\* lines 408-412 for the next body paragraph
ScalarStep ==
    /\ pc = "scalars"
    /\ i < Len(ParaPositions(doc))
    /\ LET q == ParaPositions(doc)[i + 1]
       IN  doc' = [doc EXCEPT ![q] = ReplaceSimple(doc[q], data)]
    /\ i' = i + 1
    /\ UNCHANGED <<pc, doc0, data, paragraphs_to_process, Unused>>

ScalarsDone ==
    /\ pc = "scalars"
    /\ i >= Len(ParaPositions(doc))
    /\ pc' = "tables"
    /\ i' = 0
    /\ UNCHANGED <<doc, doc0, data, paragraphs_to_process, Unused>>

\* lines 414-421 for the next table
TableStep ==
    /\ pc = "tables"
    /\ i < Len(TablePositions(doc))
    /\ LET q == TablePositions(doc)[i + 1]
       IN  doc' = [doc EXCEPT ![q] = FillTable(doc[q], data)]
    /\ i' = i + 1
    /\ UNCHANGED <<pc, doc0, data, paragraphs_to_process, Unused>>

\* line 423: fill_docx_template returns
TablesDone ==
    /\ pc = "tables"
    /\ i >= Len(TablePositions(doc))
    /\ pc' = "filled"
    /\ UNCHANGED <<doc, doc0, data, i, paragraphs_to_process, Unused>>

\* main, line 466
Trim ==
    /\ pc = "filled"
    /\ doc' = remove_trailing_empty_paragraphs(doc)
    /\ pc' = "done"
    /\ UNCHANGED <<doc0, data, i, paragraphs_to_process, Unused>>

Next ==
    \/ BlockSkip
    \/ BlockExpand
    \/ BlockRaise
    \/ BlocksDone
    \/ ListStep
    \/ ListsDone
    \/ ScalarStep
    \/ ScalarsDone
    \/ TableStep
    \/ TablesDone
    \/ Trim

Spec == Init /\ [][Next]_vars

----------------------------------------------------------------------------
(* Claims about fill_docx_template (Spec).  They are read on the steps of the
   pipeline: doc is the document before the step and doc' after it. *)

\* a list of records: every item is a dict
IsRecords(xs) == \A n \in 1..Len(xs) : xs[n].k = "dict"

\* the step expands the block opened by the paragraph at i, whose name the
\* data maps to a list of records
Expanding ==
    /\ pc = "blocks"
    /\ i < Len(all_paragraphs(doc))
    /\ Expandable(doc, data, i)
    /\ IsRecords(Get(data, BlockName(doc, i)[1]).xs)

\* the step runs the list stage on the next paragraph of the snapshot
ListStepping == pc = "lists" /\ i < Len(paragraphs_to_process)

RECURSIVE ReplaceEvery(_, _, _)
\* t with every occurrence of s, left to right, replaced by v
ReplaceEvery(t, s, v) ==
    IF Find(t, s) = 0 THEN t
    ELSE SubSeq(t, 1, Find(t, s) - 1) \o v
         \o ReplaceEvery(After(t, Find(t, s) + Len(s) - 1), s, v)

IsScalar(v) == v.k \in {"str", "int"}

\* the items of the list-valued field the template paragraph holds, <<>>
\* when it holds none
ListFieldItems(item_data, template_para) ==
    IF ListKeyInPara(item_data, template_para) = 0 THEN <<>>
    ELSE item_data[ListKeyInPara(item_data, template_para)].value.xs

\* the paragraphs a template paragraph contributes for one record: k for a
\* list-valued field of k >= 1 items, else one
HowMany(item_data, template_para) ==
    IF ListFieldItems(item_data, template_para) # <<>>
    THEN Len(ListFieldItems(item_data, template_para))
    ELSE 1

ItemsShape(r, t, k) == [m \in 1..k |-> [rec |-> r, tpl |-> t, item |-> m]]

RECURSIVE RecordShape(_, _, _, _)
RecordShape(records, template_paras, r, t) ==
    IF t > Len(template_paras) THEN <<>>
    ELSE ItemsShape(r, t, HowMany(records[r].es, template_paras[t]))
         \o RecordShape(records, template_paras, r, t + 1)

RECURSIVE BlockShape(_, _, _)
\* what the expansion is to generate, in order: for every record in record
\* order, for every template paragraph in template order, the record, the
\* template paragraph and the item of each paragraph
BlockShape(records, template_paras, r) ==
    IF r > Len(records) THEN <<>>
    ELSE RecordShape(records, template_paras, r, 1)
         \o BlockShape(records, template_paras, r + 1)

\* p shows no string of another record where record r has another value
OfRecord(p, records, r) ==
    \A r2 \in 1..Len(records) : \A n \in 1..Len(records[r2].es) :
        (/\ records[r2].es[n].value.k = "str"
         /\ Contains(ParaText(p), records[r2].es[n].value.s))
            => Get(records[r].es, records[r2].es[n].key) = records[r2].es[n].value

\* p is the paragraph for entry e of the shape: made from its template
\* paragraph, for its record, and showing its item
FromTemplate(p, e, records, template_paras) ==
    /\ p.k = "p"
    /\ p.pPr = template_paras[e.tpl].pPr
    /\ OfRecord(p, records, e.rec)
    /\ ListFieldItems(records[e.rec].es, template_paras[e.tpl]) # <<>>
          => Contains(StarFree(ParaText(p)),
                      StarFree(str(ListFieldItems(records[e.rec].es,
                                                  template_paras[e.tpl])[e.item])))

\* the block opened at paragraph i: its name, its template paragraphs, its
\* records, and the elements of the body before and after it
TheBlock ==
    [templates |-> SubSeq(all_paragraphs(doc), i + 2,
                          ClosingIdx(all_paragraphs(doc), i, BlockName(doc, i))),
     records   |-> Get(data, BlockName(doc, i)[1]).xs,
     before    |-> SubSeq(doc, 1, ParaPositions(doc)[i + 1] - 1),
     after     |-> SubSeq(doc,
                          ParaPositions(doc)[ClosingIdx(all_paragraphs(doc), i,
                                                        BlockName(doc, i)) + 1] + 1,
                          Len(doc))]

\* out is the body with the block b replaced by paragraphs of the shape
SplicedAsShape(b, shape, out) ==
    /\ Len(out) >= Len(b.before) + Len(shape) + Len(b.after)
    /\ SubSeq(out, 1, Len(b.before)) = b.before
    /\ \A n \in 1..Len(shape) :
          FromTemplate(out[Len(b.before) + n], shape[n], b.records, b.templates)
    /\ SubSeq(out, Len(b.before) + Len(shape) + 1,
              Len(b.before) + Len(shape) + Len(b.after)) = b.after

Spliced(b, out) == SplicedAsShape(b, BlockShape(b.records, b.templates, 1), out)

\* C1 as stated: expanding a block whose open and close markers exist and
\* whose name maps to a list of records removes the marker paragraphs and the
\* template paragraphs between them, and the generated paragraphs stand
\* right after the element that preceded the open marker, or at document
\* start when there was none, in record order and, within a record, in
\* template order; a template paragraph with a list-valued field of k >= 1
\* items gives k consecutive paragraphs in item order, every other one gives
\* one, and the elements outside the block keep their order.
C1_BlockSpliced ==
    [][Expanding => (pc' = "blocks" /\ Spliced(TheBlock, doc'))]_vars

\* the list-valued keys of the data whose token a run of p holds
ListTokens(p) ==
    {n \in 1..Len(data) :
        /\ data[n].value.k = "list"
        /\ FoundInRun(p.runs, Placeholder(data[n].key))}

\* out is p expanded for the items: p with the token replaced by the first
\* item, then one paragraph per further item with the item as its text, all
\* with the paragraph-level descriptor of p (texts are read without the
\* stars of emphasis markup)
ItemParas(p, ph, items, out) ==
    /\ Len(out) = Len(items)
    /\ \A m \in 1..Len(out) : out[m].k = "p" /\ out[m].pPr = p.pPr
    /\ StarFree(ParaText(out[1]))
          = StarFree(ReplaceEvery(ParaText(p), ph, str(items[1])))
    /\ \A m \in 2..Len(out) : StarFree(ParaText(out[m])) = StarFree(str(items[m]))

\* the list stage turns position q of the body into the paragraphs of the
\* items and leaves the rest of the body as it is
ExpandedAt(q, ph, items) ==
    /\ Len(doc') = Len(doc) + Len(items) - 1
    /\ ItemParas(doc[q], ph, items, SubSeq(doc', q, q + Len(items) - 1))
    /\ SubSeq(doc', 1, q - 1) = SubSeq(doc, 1, q - 1)
    /\ SubSeq(doc', q + Len(items), Len(doc')) = SubSeq(doc, q + 1, Len(doc))

\* C2 as stated: for any NAME the data maps to a list of n >= 1 scalars and
\* any body paragraph that holds {{NAME}} (in one run, and no other list
\* token) after block expansion, the list stage yields exactly n paragraphs
\* in item order: the paragraph with the token replaced by the first item,
\* followed by one new paragraph per further item with the item as text and
\* the paragraph's style, whatever the key is called.
C2_ListStage ==
    [][ListStepping =>
        \A n \in ListTokens(doc[paragraphs_to_process[i + 1]]) :
            (/\ ListTokens(doc[paragraphs_to_process[i + 1]]) = {n}
             /\ data[n].value.xs # <<>>
             /\ \A m \in 1..Len(data[n].value.xs) : IsScalar(data[n].value.xs[m]))
                => ExpandedAt(paragraphs_to_process[i + 1], Placeholder(data[n].key),
                              data[n].value.xs)]_vars

RECURSIVE AllScalarsIn(_, _)
\* t with every occurrence of the token of every scalar key replaced by the
\* str of its value
AllScalarsIn(t, entries) ==
    IF entries = <<>> THEN t
    ELSE AllScalarsIn(IF IsScalar(Head(entries).value)
                      THEN ReplaceEvery(t, Placeholder(Head(entries).key),
                                        str(Head(entries).value))
                      ELSE t,
                      Tail(entries))

RECURSIVE ScalarsInRuns(_)
\* the text of the runs with the tokens inside each run replaced
ScalarsInRuns(runs) ==
    IF runs = <<>> THEN <<>>
    ELSE AllScalarsIn(Head(runs).text, data) \o ScalarsInRuns(Tail(runs))

ScalarsReplaced(p, q) ==
    StarFree(ParaText(q)) = StarFree(ScalarsInRuns(p.runs))

\* C3 as stated: the scalar stage, the last to touch a paragraph, replaces in
\* every body paragraph and every table-cell paragraph every occurrence of
\* {{NAME}} that lies inside one run, for every NAME the data maps to a
\* scalar, by str(value): none is left and none is removed without the value
\* put in, however often the token occurs in the paragraph or the run.
C3_ScalarsReplaced ==
    [][/\ (pc = "scalars" /\ i < Len(ParaPositions(doc)))
            => ScalarsReplaced(doc[ParaPositions(doc)[i + 1]],
                               doc'[ParaPositions(doc)[i + 1]])
       /\ (pc = "tables" /\ i < Len(TablePositions(doc)))
            => \A c \in 1..Len(doc[TablePositions(doc)[i + 1]].cells) :
                  ScalarsReplaced(doc[TablePositions(doc)[i + 1]].cells[c],
                                  doc'[TablePositions(doc)[i + 1]].cells[c])]_vars

\* the runs made for an item carry the properties H of the run that held the
\* token, but for bold turned on where the item has emphasis markup
ItemRunsInherit(item, p, H) ==
    \A n \in 1..Len(p.runs) :
        \/ FontProps(p.runs[n]) = H
        \/ /\ HasSpan(str(item))
           /\ FontProps(p.runs[n]) = [H EXCEPT !.bold = "True"]

\* the paragraph new made for an item further than the first has the
\* paragraph-level descriptor of p and the run properties of the run of p
\* that held the token
FurtherItemPara(p, ph, item, new) ==
    /\ new.k = "p"
    /\ new.pPr = p.pPr
    /\ ItemRunsInherit(item, new, FirstRunProps(p.runs, ph)[1])

\* the key of the list-valued field the template paragraph holds
ListFieldToken(item_data, template_para) ==
    Placeholder(item_data[ListKeyInPara(item_data, template_para)].key)

C9_InBlock(b, shape, out) ==
    \A n \in 1..Len(shape) :
        shape[n].item >= 2 =>
            FurtherItemPara(
                b.templates[shape[n].tpl],
                ListFieldToken(b.records[shape[n].rec].es, b.templates[shape[n].tpl]),
                ListFieldItems(b.records[shape[n].rec].es,
                               b.templates[shape[n].tpl])[shape[n].item],
                out[Len(b.before) + n])

C9_InListStage(q) ==
    \A n \in ListTokens(doc[q]) :
        (ListTokens(doc[q]) = {n} /\ Len(doc') = Len(doc) + Len(data[n].value.xs) - 1)
            => \A m \in 2..Len(data[n].value.xs) :
                  FurtherItemPara(doc[q], Placeholder(data[n].key),
                                  data[n].value.xs[m], doc'[q + m - 1])

\* C9 as stated: in every list expansion that takes place (of a top-level
\* list token, or of a list-valued field inside a repeating block), each
\* paragraph created for items 2..n has the paragraph-level style and
\* numbering descriptor of the original paragraph, and its runs carry the
\* font name, size, color, bold, italic and underline of the run that held
\* the token, so the text without emphasis of items 2..n is styled as that
\* of item 1.
C9_FurtherItemsStyled ==
    [][/\ (ListStepping /\ Len(doc') > Len(doc))
            => C9_InListStage(paragraphs_to_process[i + 1])
       /\ (Expanding /\ pc' = "blocks")
            => C9_InBlock(TheBlock, BlockShape(TheBlock.records, TheBlock.templates, 1),
                          doc')]_vars

\* every list token of p is one of an empty list
OnlyEmptyLists(p) == \A n \in ListTokens(p) : data[n].value.xs = <<>>

C10_InListStage(q) ==
    (ListTokens(doc[q]) # {} /\ OnlyEmptyLists(doc[q])) =>
        /\ Len(doc') = Len(doc)
        /\ \A m \in 1..Len(doc) : m # q => doc'[m] = doc[m]
        /\ doc'[q].k = "p"
        /\ doc'[q].pPr = doc[q].pPr
        /\ \A n \in ListTokens(doc[q]) :
              ~Contains(ParaText(doc'[q]), Placeholder(data[n].key))
        /\ Cardinality(ListTokens(doc[q])) = 1 =>
              \A n \in ListTokens(doc[q]) :
                 ParaText(doc'[q])
                    = ReplaceEvery(ParaText(doc[q]), Placeholder(data[n].key), <<>>)

C10_InBlock(b, shape, out) ==
    \A n \in 1..Len(shape) :
        (/\ ListKeyInPara(b.records[shape[n].rec].es, b.templates[shape[n].tpl]) # 0
         /\ ListFieldItems(b.records[shape[n].rec].es, b.templates[shape[n].tpl]) = <<>>)
            => /\ out[Len(b.before) + n].pPr = b.templates[shape[n].tpl].pPr
               /\ ~Contains(ParaText(out[Len(b.before) + n]),
                            ListFieldToken(b.records[shape[n].rec].es,
                                           b.templates[shape[n].tpl]))

\* C10 as stated: when the NAME of a list token maps to an empty list, the
\* paragraph holding the token stays in the document at its position, the
\* token is removed from its text (the text is empty when the token was all
\* of it), and no sibling paragraph is added.
C10_EmptyListKept ==
    [][/\ ListStepping => C10_InListStage(paragraphs_to_process[i + 1])
       /\ (Expanding /\ pc' = "blocks")
            => C10_InBlock(TheBlock, BlockShape(TheBlock.records, TheBlock.templates, 1),
                           doc')]_vars

\* the data maps the block name to no list of records: to nothing, to a
\* scalar, or to a list with an item that is no record
MapsToNoRecords(d, block_name) ==
    \/ Len(block_name) # 1
    \/ ~HasKey(d, block_name[1])
    \/ Get(d, block_name[1]).k # "list"
    \/ ~IsRecords(Get(d, block_name[1]).xs)

\* the block pass is at a paragraph with an open marker
AtOpenMarker ==
    /\ pc = "blocks"
    /\ i < Len(all_paragraphs(doc))
    /\ BlockName(doc, i) # <<>>

\* the step leaves the document as it is and goes on to the next paragraph
Skipped == pc' = "blocks" /\ doc' = doc /\ i' = i + 1

\* C11 as stated: a block whose name the data maps to something other than
\* a list of records (a scalar, a list of scalars, no entry) is left
\* unexpanded: its marker paragraphs and the paragraphs between them stay in
\* the document, no exception is raised, and the pass goes on.
C11_LeftUnexpanded ==
    [][(AtOpenMarker /\ MapsToNoRecords(data, BlockName(doc, i))) => Skipped]_vars

\* no paragraph after the one at i holds the close marker of its block
Unclosed ==
    /\ AtOpenMarker
    /\ \A j \in (i + 2)..Len(all_paragraphs(doc)) :
          ~Contains(ParaText(all_paragraphs(doc)[j]),
                    <<"{", "{", "/">> \o BlockName(doc, i) \o <<"}", "}">>)

\* C12: when an open marker has no paragraph holding its close marker after
\* it, the block pass removes nothing and inserts nothing for it: the
\* document stays as it is, nothing is raised, and the scan goes on to the
\* next paragraph.
C12_UnclosedSkipped == [][Unclosed => Skipped]_vars

\* C12 witness: the scan has gone past the open marker of a block of records
\* that is never closed, and the document is as it was loaded
C12_Witness ==
    /\ pc = "blocks"
    /\ i = 2
    /\ doc0 = <<Heading, OpenPara, DescriptionPara>>
    /\ doc = doc0
    /\ data = Data(2, 3)

\* the step of the block pass gives back the document it started from,
\* followed by empty paragraphs at the end of the body.  Such paragraphs hold
\* no marker, so the scan, restarted, skips the paragraphs it skipped before,
\* comes to the same block and takes the same step again, without end
Repeats ==
    /\ pc = "blocks" /\ pc' = "blocks"
    /\ Len(doc') > Len(doc)
    /\ SubSeq(doc', 1, Len(doc)) = doc
    /\ \A m \in (Len(doc) + 1)..Len(doc') : doc'[m] = EmptyParagraph

\* C13: for every template and every data, values and list items that hold
\* {{#NAME}}, {{/NAME}} or {{NAME}} included, the block pass with its restarts
\* comes to a stop; so no expansion may give back the block it expanded.
C13_BlockPassStops == [][~Repeats]_vars

\* element n of the body is a paragraph without runs
EmptyAt(d, n) == d[n].k = "p" /\ IsEmptyPara(d[n])

\* how many elements the maximal run of empty paragraphs at the very end of
\* the body d has
EndRun(d) ==
    Len(d) - MinOr0({n \in 0..Len(d) : \A m \in (n + 1)..Len(d) : EmptyAt(d, m)})

\* C14: on a document of paragraphs and tables the trim removes exactly the
\* maximal run of empty paragraphs at the very end of the body: the last
\* element is then no empty paragraph, and every empty paragraph with a
\* paragraph that is not empty, or a table, after it is still there.
C14_TrimsEndRun ==
    [][(pc = "filled" /\ pc' = "done")
          => doc' = SubSeq(doc, 1, Len(doc) - EndRun(doc))]_vars

\* the text of the paragraph holds no {{
TokenFree(p) == ~Contains(ParaText(p), <<"{", "{">>)

\* how often x is an element of s
Occurrences(s, x) == Cardinality({n \in 1..Len(s) : s[n] = x})

\* the elements outside the block b are in d2 as they were, those after the
\* block followed by k empty paragraphs at most; and between them every
\* template paragraph without a token is found once for every record
OutsideKept(b, d2, k) ==
    /\ Len(d2) >= Len(b.before) + Len(b.after) + k
    /\ SubSeq(d2, 1, Len(b.before)) = b.before
    /\ SubSeq(d2, Len(d2) - k - Len(b.after) + 1, Len(d2) - k) = b.after
    /\ \A m \in (Len(d2) - k + 1)..Len(d2) : d2[m] = EmptyParagraph
    /\ \A n \in 1..Len(b.templates) :
          TokenFree(b.templates[n]) =>
             Occurrences(SubSeq(d2, Len(b.before) + 1, Len(d2) - k - Len(b.after)),
                         b.templates[n])
                >= Len(b.records) * Occurrences(b.templates, b.templates[n])

BlockFrame(b, d2) == \E k \in 0..Len(d2) : OutsideKept(b, d2, k)

\* a step on the element at q of d gives d2: the elements before and after q
\* are as they were, and so is the paragraph at q when it holds no token
ElementFrame(d, q, d2) ==
    /\ Len(d2) >= Len(d)
    /\ SubSeq(d2, 1, q - 1) = SubSeq(d, 1, q - 1)
    /\ SubSeq(d2, q + 1 + Len(d2) - Len(d), Len(d2)) = SubSeq(d, q + 1, Len(d))
    /\ (d[q].k = "p" /\ TokenFree(d[q])) => d2 = d

\* the cells of the table t without a token are as they were in t2
CellFrame(t, t2) ==
    /\ Len(t2.cells) = Len(t.cells)
    /\ \A c \in 1..Len(t.cells) : TokenFree(t.cells[c]) => t2.cells[c] = t.cells[c]

\* the call of _replace_placeholder_in_runs on p with the token of a key of
\* the entries, when no run of p holds the token, gives p
AbsentTokenKept(p, entries) ==
    \A n \in 1..Len(entries) :
       ~FoundInRun(p.runs, Placeholder(entries[n].key))
          => ReplaceInParagraph(p, Placeholder(entries[n].key), <<"Ann">>) = p

NoToken(d) ==
    \A n \in 1..Len(d) :
       IF d[n].k = "p" THEN TokenFree(d[n])
       ELSE \A c \in 1..Len(d[n].cells) : TokenFree(d[n].cells[c])

\* C16: the pipeline, fill and then trim, run on a document without any
\* {{...}} token, is a no-op: the elements, the runs of every paragraph and
\* the text and style of every run are after the run what they were before
\* it.  Stated for the documents whose body does not end with an empty
\* paragraph, as every document the trim has been through should.
C16_NoTokenNoOp ==
    (pc = "done" /\ NoToken(doc0) /\ EndRun(doc0) = 0) => doc = doc0

\* the paragraph ps[n] holds, at p, an open marker of a name that dt maps to
\* a list, and a later paragraph holds the close marker of that name
OpenAt(ps, dt, n, p) ==
    /\ OpenMarkerAt(ParaText(ps[n]), p)
    /\ BlockInData(dt, MarkerName(ParaText(ps[n]), p))
    /\ \E j \in (n + 1)..Len(ps) :
          Contains(ParaText(ps[j]), CloseMarker(MarkerName(ParaText(ps[n]), p)))

StillOpen(ps, dt) ==
    \E n \in 1..Len(ps) : \E p \in 1..Len(ParaText(ps[n])) : OpenAt(ps, dt, n, p)

\* C17: when the block pass finishes, no body paragraph holds an open marker
\* {{#NAME}} of a NAME the data maps to a list with a later paragraph that
\* holds {{/NAME}}, also when the paragraph holds more than one open marker
\* or when an earlier marker of the same paragraph names a block that is not
\* in the data.
C17_NoBlockLeft ==
    [][(pc = "blocks" /\ pc' = "lists") => ~StillOpen(all_paragraphs(doc'), data)]_vars

\* out is the body with the block b replaced by as many paragraphs as the
\* shape has, and nothing else: what stood after the block ends the body
OnlyGenerated(b, shape, out) ==
    /\ Len(out) = Len(b.before) + Len(shape) + Len(b.after)
    /\ SubSeq(out, 1, Len(b.before)) = b.before
    /\ SubSeq(out, Len(out) - Len(b.after) + 1, Len(out)) = b.after

\* C18: fill_docx_template adds to the document only the paragraphs it
\* generates, and only at the splice position: once a block is expanded, the
\* body is made of the elements that stood outside the block and of the
\* generated paragraphs after the anchor; no further paragraph, empty or
\* not, stands at the end of the body or elsewhere.
C18_OnlyGeneratedAdded ==
    [][(Expanding /\ pc' = "blocks")
          => OnlyGenerated(TheBlock, BlockShape(TheBlock.records, TheBlock.templates, 1),
                           doc')]_vars

====
